---- MODULE Spec2Model ----
(***************************************************************************)
(* const-writer: a byte writer whose remaining capacity N is a const       *)
(* generic parameter.  The model follows src/src/lib.rs (ConstWriter),     *)
(* src/src/slice.rs (SliceWriterAdapter) and src/src/vec.rs                *)
(* (VecWriterAdapter).                                                     *)
(*                                                                         *)
(* Addresses are integers.  The caller's array `buff` occupies addresses   *)
(* 0 .. BufLen-1; a `&mut [u8]` is a (ptr, len) pair into it.  A Vec<u8>   *)
(* is (ptr, cap, len) plus the contents of its allocation, `buf`, whose    *)
(* bytes past `len` are spare capacity.  Bytes nobody has written hold the *)
(* marker Uninit.                                                          *)
(***************************************************************************)
EXTENDS Integers, Sequences, FiniteSets, TLC

\* ------------------------------------------------------------------ bounds
\* Number of operations (const_writer, write, write_slice, convert) per run.
MaxOps == 4
\* Length of the caller's array behind the `&mut [u8]`.
BufLen == 20

\* ------------------------------------------------------------------ inputs
\* size_of of the primitive types of the implement_write! invocations.
Widths == {1, 2, 4, 8, 16}
\* to_le_bytes / to_be_bytes
Endians == {"le", "be"}
\* Values handed to the primitive writes: 0x01, 0x0203, 0x04050607 and a
\* negative number.
Values == {1, 515, 67438087, -2}
\* Const generic arguments used for const_writer::<N>() and convert::<M>().
Capacities == {0, 5, 20, 31}
\* Blocks handed to write_slice.
Blocks == {<<170, 187, 204>>}
\* Addresses at which the allocator may place a Vec's buffer.
AllocAddrs == {4096, 8192}
\* The placements open to the allocator when the Vec v asks for memory:
\* growing an existing buffer may keep it in place or move it; a first
\* allocation lands at the first address (which one is immaterial, since
\* addresses are only ever compared and subtracted).
Placements(v) == IF v.cap = 0 THEN {4096} ELSE AllocAddrs
\* Contents of a byte of spare capacity that was never written.
Uninit == 256

Max(a, b) == IF a >= b THEN a ELSE b

\* The primitive writes of the model, one value for each width: u8, u16,
\* u32, i64 and u128.
Prims ==
    {[w |-> 1, v |-> 1], [w |-> 2, v |-> 515], [w |-> 4, v |-> 67438087],
     [w |-> 8, v |-> -2], [w |-> 16, v |-> 515]}

\* ------------------------------------------------------- byte conversions
RECURSIVE ToLeBytes(_, _)
\* <int>::to_le_bytes for a type of w bytes: least significant byte first,
\* two's complement for negative values.
ToLeBytes(v, w) ==
    IF w = 0 THEN <<>> ELSE <<v % 256>> \o ToLeBytes(v \div 256, w - 1)

RECURSIVE ToBeBytes(_, _)
\* <int>::to_be_bytes for a type of w bytes: most significant byte first.
ToBeBytes(v, w) ==
    IF w = 0 THEN <<>> ELSE ToBeBytes(v \div 256, w - 1) \o <<v % 256>>

\* Every method built with to_le_bytes.
EndianBytesAlwaysLe(v, w, e) == ToLeBytes(v, w)

\* value.$endian() of implement_write!
EndianBytes(v, w, e) == IF e = "le" THEN ToLeBytes(v, w) ELSE ToBeBytes(v, w)

\* ------------------------------------------------------------- raw memory
\* core::ptr::copy_nonoverlapping(value.as_ptr(), ptr, N) into the memory
\* `mem` whose first byte has address `base`.
CopyNonoverlapping(mem, base, ptr, bytes) ==
    [i \in 1 .. Len(mem) |->
        IF base + i - 1 >= ptr /\ base + i - 1 < ptr + Len(bytes)
        THEN bytes[base + i - ptr]
        ELSE mem[i]]

\* ptr.add(N)
PtrAdd(ptr, n) == ptr + n

\* ptr.offset_from(origin) as usize
OffsetFrom(ptr, origin) == ptr - origin

\* ---------------------------------------------------- SliceWriterAdapter
\* The assertion written with > (as the doc comment of new words it).
SliceNewOkStrict(s, N) == s.len > N

\* The assertion of SliceWriterAdapter::new: slice.len() >= N.
SliceNewOk(s, N) == s.len >= N

\* SliceWriterAdapter::new: the cursor starts at slice.as_mut_ptr().
SliceNew(s) == s.ptr

\* The assertion forgets the bytes already written.
SliceGrowOkWholeSlice(s, ptr, M) == M <= s.len

\* The assertion written with <.
SliceGrowOkStrict(s, ptr, M) == M < s.len - OffsetFrom(ptr, s.ptr)

\* The assertion of SliceWriterAdapter::grow: M <= slice.len() - diff.
SliceGrowOk(s, ptr, M) == M <= s.len - OffsetFrom(ptr, s.ptr)

\* The unwinding panic leaves the slice as it was.
UnwindNoDrop(s, ptr) == s

\* The slice is moved to the cursor but keeps its length.
SliceDropKeepsLen(s, ptr) == [ptr |-> ptr, len |-> s.len]

\* Drop for SliceWriterAdapter: *slice = from_raw_parts_mut(ptr, len - diff).
SliceDrop(s, ptr) == [ptr |-> ptr, len |-> s.len - OffsetFrom(ptr, s.ptr)]

\* SliceWriterAdapter::grow takes `self` by value: when its assertion fails,
\* the unwinding panic drops the adapter, which runs its Drop.
UnwindDrop(s, ptr) == SliceDrop(s, ptr)

\* The bytes are copied one address after the cursor.
SliceWriteOffByOne(mem, ptr, bytes) ==
    [mem |-> CopyNonoverlapping(mem, 0, ptr + 1, bytes),
     ptr |-> PtrAdd(ptr, Len(bytes))]

\* <SliceWriterAdapter as ConstWriterAdapter>::write: copy at the cursor,
\* advance the cursor.  The array starts at address 0.
SliceWrite(mem, ptr, bytes) ==
    [mem |-> CopyNonoverlapping(mem, 0, ptr, bytes),
     ptr |-> PtrAdd(ptr, Len(bytes))]

\* ------------------------------------------------------ VecWriterAdapter
\* Vec::reserve(additional); newPtr is where the allocator puts the buffer
\* when it has to grow.  Growing copies the whole old allocation.
VecReserve(v, additional, newPtr) ==
    IF v.cap - v.len >= additional THEN v
    ELSE LET newCap == Max(Max(v.cap * 2, v.len + additional), 8)
         IN  [ptr |-> newPtr, cap |-> newCap, len |-> v.len,
              buf |-> [i \in 1 .. newCap |->
                          IF i <= v.cap THEN v.buf[i] ELSE Uninit]]

\* Nothing is reserved.
VecFromNoReserve(v, N, newPtr) == [vec |-> v, ptr |-> PtrAdd(v.ptr, v.len)]

\* The cursor is put at the start of the buffer.
VecFromCursorAtStart(v, N, newPtr) ==
    LET r == VecReserve(v, N, newPtr)
    IN  [vec |-> r, ptr |-> r.ptr]

\* VecWriterAdapter::from: reserve N, cursor at as_mut_ptr().add(len()).
VecFrom(v, N, newPtr) ==
    LET r == VecReserve(v, N, newPtr)
    IN  [vec |-> r, ptr |-> PtrAdd(r.ptr, r.len)]

\* The Vec adapter checks the room as the slice adapter does.
VecGrowOkBounded(v, ptr, M) == M <= v.cap - OffsetFrom(ptr, v.ptr)

\* VecWriterAdapter::grow has no assertion: it reserves, it never refuses.
VecGrowOk(v, ptr, M) == TRUE

\* The cursor is kept although reserve may have moved the buffer.
VecGrowStalePtr(v, ptr, M, newPtr) ==
    LET written_bytes == OffsetFrom(ptr, v.ptr)
        r == VecReserve(v, written_bytes + M, newPtr)
    IN  [vec |-> r, ptr |-> ptr]

\* The cursor is re-derived from the Vec's length, as `from` derives it.
VecGrowCursorAtLen(v, ptr, M, newPtr) ==
    LET written_bytes == OffsetFrom(ptr, v.ptr)
        r == VecReserve(v, written_bytes + M, newPtr)
    IN  [vec |-> r, ptr |-> PtrAdd(r.ptr, r.len)]

\* Only the M requested bytes are reserved, not the bytes already written.
VecGrowReservesOnlyM(v, ptr, M, newPtr) ==
    LET written_bytes == OffsetFrom(ptr, v.ptr)
        r == VecReserve(v, M, newPtr)
    IN  [vec |-> r, ptr |-> PtrAdd(r.ptr, written_bytes)]

\* VecWriterAdapter::grow: reserve written_bytes + M and re-derive the cursor.
VecGrow(v, ptr, M, newPtr) ==
    LET written_bytes == OffsetFrom(ptr, v.ptr)
        r == VecReserve(v, written_bytes + M, newPtr)
    IN  [vec |-> r, ptr |-> PtrAdd(r.ptr, written_bytes)]

\* The write publishes its bytes at once by advancing the Vec's length.
VecWriteAdvancesLen(v, ptr, bytes) ==
    [vec |-> [v EXCEPT !.buf = CopyNonoverlapping(v.buf, v.ptr, ptr, bytes),
                       !.len = v.len + Len(bytes)],
     ptr |-> PtrAdd(ptr, Len(bytes))]

\* <VecWriterAdapter as ConstWriterAdapter>::write: copy at the cursor,
\* advance the cursor.
VecWrite(v, ptr, bytes) ==
    [vec |-> [v EXCEPT !.buf = CopyNonoverlapping(v.buf, v.ptr, ptr, bytes)],
     ptr |-> PtrAdd(ptr, Len(bytes))]

\* The new length counts the chain's bytes only, not the earlier content.
VecDropCountsChainOnly(v, ptr) ==
    [v EXCEPT !.len = OffsetFrom(ptr, v.ptr + v.len)]

\* set_len to everything that was reserved.
VecDropSetsCapacity(v, ptr) == [v EXCEPT !.len = v.cap]

\* Drop for VecWriterAdapter: vec.set_len(ptr.offset_from(vec.as_ptr())).
VecDrop(v, ptr) == [v EXCEPT !.len = OffsetFrom(ptr, v.ptr)]

\* ------------------------------------------------------------ ConstWriter
\* ConstWriter::remaining
Remaining(N) == N

\* The method borrows the handle, which stays usable.
TakeSelfByRef(n) == n

\* Every write method, convert and the final drop take the handle by value
\* (`self`): of the n handles that exist, the one used is gone.
TakeSelf(n) == n - 1

\* The return type counts one byte whatever the width.
SubCapacityOneByte(N, w) == N - 1

\* The const expression {N - size_of::<T>()} / {N - M} of the return type
\* of a write: usize subtraction, evaluated by the compiler.
SubCapacity(N, w) == N - w

\* The subtraction never fails to evaluate.
WriteCompilesAlways(N, w) == TRUE

\* The return type of a write exists only if its const expression evaluates
\* without overflow; otherwise the call does not compile.
WriteCompiles(N, w) == SubCapacity(N, w) >= 0

\* The branch taken with < : M = N goes to the adapter.
ConvertShrinksStrict(N, M) == M < N

\* The branch of ConstWriter::convert: `if M <= N` (shrink, no adapter call).
ConvertShrinks(N, M) == M <= N

\* ------------------------------------------------------------------ state
VARIABLES
    kind,     \* "slice" or "vec": the store this program writes to
    buff,     \* the caller's array (slice programs)
    slice,    \* the caller's `&mut [u8]`: [ptr, len]
    vec,      \* the caller's Vec<u8>: [ptr, cap, len, buf]
    pc,       \* "idle" | "live" | "panicked"
    cw,       \* the live ConstWriter: [N, ptr] (N is its const parameter)
    ret,      \* <<n>> when the last operation was remaining() returning n
    calls,    \* history: the write calls of the current chain, in order
    st0,      \* history: store and declared N when the chain was created
    converts, \* history: number of convert calls of the current chain
    released, \* history: the chain's adapter has been dropped
    grewAt,   \* history: for each call of the adapter's grow by the current
              \* chain, the number of bytes written before it
    moved,    \* history: a grow of the current chain relocated the buffer
    last,     \* history: the last operation and its const generic argument
    live,     \* history: number of ConstWriter handles that exist
    prev,     \* history: the write calls of the chains released before
    ops       \* number of operations so far

vars == <<kind, buff, slice, vec, pc, cw, ret, calls, st0, converts, released,
          grewAt, moved, last, live, prev, ops>>

NoWriter == [N |-> 0, ptr |-> 0]
NoSlice == [ptr |-> 0, len |-> 0]
\* Vec::new() / vec![]
EmptyVec == [ptr |-> 1, cap |-> 0, len |-> 0, buf |-> <<>>]

Snapshot(N) == [N |-> N, buff |-> buff, slice |-> slice, vec |-> vec]

Init ==
    /\ kind \in {"slice", "vec"}
    /\ buff = IF kind = "slice" THEN [i \in 1 .. BufLen |-> 0] ELSE <<>>
    /\ slice = IF kind = "slice" THEN [ptr |-> 0, len |-> BufLen] ELSE NoSlice
    /\ vec = EmptyVec
    /\ pc = "idle"
    /\ cw = NoWriter
    /\ ret = <<>>
    /\ calls = <<>>
    /\ st0 = Snapshot(0)
    /\ converts = 0
    /\ released = FALSE
    /\ grewAt = <<>>
    /\ moved = FALSE
    /\ last = [op |-> "none", arg |-> 0]
    /\ live = 0
    /\ prev = <<>>
    /\ ops = 0

RECURSIVE SumWidths(_)
\* The number of bytes a sequence of write calls writes.
SumWidths(cs) == IF cs = <<>> THEN 0 ELSE cs[1].w + SumWidths(Tail(cs))

\* ---------------------------------------------------------------- actions
\* <&mut [u8] as ConstWrite>::const_writer::<N>(): SliceWriterAdapter::new
\* asserts the length, then the writer is built.  A failed assertion panics
\* before any adapter exists.
SliceConstWriter(N) ==
    /\ kind = "slice" /\ pc = "idle" /\ ops < MaxOps
    /\ IF SliceNewOk(slice, N)
       THEN /\ pc' = "live"
            /\ cw' = [N |-> N, ptr |-> SliceNew(slice)]
            /\ live' = live + 1
       ELSE /\ pc' = "panicked"
            /\ cw' = NoWriter
            /\ live' = live
    /\ prev' = prev \o calls
    /\ calls' = <<>>
    /\ st0' = Snapshot(N)
    /\ converts' = 0
    /\ released' = FALSE
    /\ grewAt' = <<>>
    /\ moved' = FALSE
    /\ ret' = <<>>
    /\ last' = [op |-> "const_writer", arg |-> N]
    /\ ops' = ops + 1
    /\ UNCHANGED <<kind, buff, slice, vec>>

\* <Vec<u8> as ConstWrite>::const_writer::<N>(): VecWriterAdapter::from.
VecConstWriter(N) ==
    /\ kind = "vec" /\ pc = "idle" /\ ops < MaxOps
    /\ \E newPtr \in Placements(vec) :
          /\ vec' = VecFrom(vec, N, newPtr).vec
          /\ cw' = [N |-> N, ptr |-> VecFrom(vec, N, newPtr).ptr]
    /\ pc' = "live"
    /\ live' = live + 1
    /\ prev' = prev \o calls
    /\ calls' = <<>>
    /\ st0' = Snapshot(N)
    /\ converts' = 0
    /\ released' = FALSE
    /\ grewAt' = <<>>
    /\ moved' = FALSE
    /\ ret' = <<>>
    /\ last' = [op |-> "const_writer", arg |-> N]
    /\ ops' = ops + 1
    /\ UNCHANGED <<kind, buff, slice>>

\* ConstWriterAdapter::write of the adapter in use, then the new handle
\* ConstWriter<T, {N - w}>.
AdapterWrite(bytes, call) ==
    /\ IF kind = "slice"
       THEN /\ buff' = SliceWrite(buff, cw.ptr, bytes).mem
            /\ cw' = [N |-> SubCapacity(cw.N, Len(bytes)),
                      ptr |-> SliceWrite(buff, cw.ptr, bytes).ptr]
            /\ UNCHANGED vec
       ELSE /\ vec' = VecWrite(vec, cw.ptr, bytes).vec
            /\ cw' = [N |-> SubCapacity(cw.N, Len(bytes)),
                      ptr |-> VecWrite(vec, cw.ptr, bytes).ptr]
            /\ UNCHANGED buff
    /\ calls' = Append(calls, call)
    /\ live' = TakeSelf(live) + 1
    /\ ret' = <<>>
    /\ ops' = ops + 1
    /\ UNCHANGED <<kind, slice, pc, st0, converts, released, grewAt, moved,
                   prev>>

\* ConstWriter::write_<type>_<endian>(value), one of the implement_write!
\* methods.  The call exists only where its return type evaluates.
Write(p, e) ==
    /\ pc = "live" /\ ops < MaxOps
    /\ WriteCompiles(cw.N, p.w)
    /\ AdapterWrite(EndianBytes(p.v, p.w, e),
                    [w |-> p.w, v |-> p.v, e |-> e, block |-> <<>>])
    /\ last' = [op |-> "write", arg |-> p.w]

\* ConstWriter::write_slice(&[u8; M]).
WriteSlice(b) ==
    /\ pc = "live" /\ ops < MaxOps
    /\ WriteCompiles(cw.N, Len(b))
    /\ AdapterWrite(b, [w |-> Len(b), v |-> 0, e |-> "raw", block |-> b])
    /\ last' = [op |-> "write_slice", arg |-> Len(b)]

\* ConstWriter::convert::<M>().  Shrinking relabels the handle.  Growing calls
\* the adapter's grow: a slice adapter asserts the room and, when the
\* assertion fails, is dropped by the unwinding panic; a Vec adapter reserves.
Convert(M) ==
    /\ pc = "live" /\ ops < MaxOps
    /\ IF ConvertShrinks(cw.N, M)
       THEN /\ cw' = [cw EXCEPT !.N = M]
            /\ live' = TakeSelf(live) + 1
            /\ UNCHANGED <<slice, vec, pc, released, grewAt, moved>>
       ELSE /\ grewAt' = Append(grewAt, SumWidths(calls))
            /\ IF kind = "slice"
               THEN IF SliceGrowOk(slice, cw.ptr, M)
                    THEN /\ cw' = [cw EXCEPT !.N = M]
                         /\ live' = TakeSelf(live) + 1
                         /\ UNCHANGED <<slice, vec, pc, released, moved>>
                    ELSE /\ slice' = UnwindDrop(slice, cw.ptr)
                         /\ pc' = "panicked"
                         /\ released' = TRUE
                         /\ cw' = NoWriter
                         /\ live' = TakeSelf(live)
                         /\ UNCHANGED <<vec, moved>>
               ELSE IF VecGrowOk(vec, cw.ptr, M)
                    THEN /\ \E newPtr \in Placements(vec) :
                               /\ vec' = VecGrow(vec, cw.ptr, M, newPtr).vec
                               /\ cw' = [N |-> M,
                                         ptr |-> VecGrow(vec, cw.ptr, M,
                                                         newPtr).ptr]
                         /\ moved' = (moved \/ vec'.ptr # vec.ptr)
                         /\ live' = TakeSelf(live) + 1
                         /\ UNCHANGED <<slice, pc, released>>
                    ELSE /\ vec' = VecDrop(vec, cw.ptr)
                         /\ pc' = "panicked"
                         /\ released' = TRUE
                         /\ cw' = NoWriter
                         /\ live' = TakeSelf(live)
                         /\ UNCHANGED <<slice, moved>>
    /\ converts' = converts + 1
    /\ ret' = <<>>
    /\ last' = [op |-> "convert", arg |-> M]
    /\ ops' = ops + 1
    /\ UNCHANGED <<kind, buff, calls, st0, prev>>

\* ConstWriter::remaining(&self).
RemainingCall ==
    /\ pc = "live"
    /\ ret' = <<Remaining(cw.N)>>
    /\ last' = [op |-> "remaining", arg |-> 0]
    /\ UNCHANGED <<kind, buff, slice, vec, pc, cw, calls, st0, converts,
                   released, grewAt, moved, live, prev, ops>>

\* The handle goes out of scope: Drop for SliceWriterAdapter.
SliceRelease ==
    /\ kind = "slice" /\ pc = "live"
    /\ slice' = SliceDrop(slice, cw.ptr)
    /\ pc' = "idle"
    /\ cw' = NoWriter
    /\ released' = TRUE
    /\ ret' = <<>>
    /\ last' = [op |-> "release", arg |-> 0]
    /\ live' = TakeSelf(live)
    /\ UNCHANGED <<kind, buff, vec, calls, st0, converts, grewAt, moved, prev,
                   ops>>

\* The handle goes out of scope: Drop for VecWriterAdapter.
VecRelease ==
    /\ kind = "vec" /\ pc = "live"
    /\ vec' = VecDrop(vec, cw.ptr)
    /\ pc' = "idle"
    /\ cw' = NoWriter
    /\ released' = TRUE
    /\ ret' = <<>>
    /\ last' = [op |-> "release", arg |-> 0]
    /\ live' = TakeSelf(live)
    /\ UNCHANGED <<kind, buff, slice, calls, st0, converts, grewAt, moved, prev,
                   ops>>

Next ==
    \/ \E N \in Capacities : SliceConstWriter(N)
    \/ \E N \in Capacities : VecConstWriter(N)
    \/ \E p \in Prims, e \in Endians : Write(p, e)
    \/ \E b \in Blocks : WriteSlice(b)
    \/ \E M \in Capacities : Convert(M)
    \/ RemainingCall
    \/ SliceRelease
    \/ VecRelease

Spec == Init /\ [][Next]_vars

\* ------------------------------------------------ programs on a filled Vec
\* The write of the first chain of a program that takes two writers in a row.
FirstChainCall == [w |-> 4, v |-> 67438087, e |-> "le", block |-> <<>>]

\* The Vec a first chain const_writer::<5>().write_u32_le(..) leaves when it
\* is released: 4 bytes of content in a buffer of capacity 8.
FilledVec ==
    LET f == VecFrom(EmptyVec, 5, 4096)
        w == VecWrite(f.vec, f.ptr,
                      EndianBytes(FirstChainCall.v, FirstChainCall.w,
                                  FirstChainCall.e))
    IN  VecDrop(w.vec, w.ptr)

\* A Vec program either at its start or just after that first chain was
\* released, with MaxOps operations still to come.
InitGrow ==
    /\ kind = "vec"
    /\ buff = <<>>
    /\ slice = NoSlice
    /\ vec \in {EmptyVec, FilledVec}
    /\ pc = "idle"
    /\ cw = NoWriter
    /\ ret = <<>>
    /\ calls = IF vec = EmptyVec THEN <<>> ELSE <<FirstChainCall>>
    /\ st0 = [N |-> IF vec = EmptyVec THEN 0 ELSE 5, buff |-> <<>>,
              slice |-> NoSlice, vec |-> EmptyVec]
    /\ converts = 0
    /\ released = (vec # EmptyVec)
    /\ grewAt = <<>>
    /\ moved = FALSE
    /\ last = [op |-> IF vec = EmptyVec THEN "none" ELSE "release", arg |-> 0]
    /\ live = 0
    /\ prev = <<>>
    /\ ops = 0

\* The operations of a Vec program.
NextVec ==
    \/ \E N \in Capacities : VecConstWriter(N)
    \/ \E p \in Prims, e \in Endians : Write(p, e)
    \/ \E b \in Blocks : WriteSlice(b)
    \/ \E M \in Capacities : Convert(M)
    \/ RemainingCall
    \/ VecRelease

SpecGrow == InitGrow /\ [][NextVec]_vars

\* -------------------------------------------------------------- histories
\* Number of bytes the current chain has written.
ChainBytes == SumWidths(calls)

RECURSIVE Digit(_, _)
\* The base-256 digit of weight 256^k of v, two's complement.
Digit(v, k) == IF k = 0 THEN v % 256 ELSE Digit(v \div 256, k - 1)

\* The byte representation a call declares: the block itself, or the value's
\* digits from the least significant (le) or from the most significant (be).
Representation(c) ==
    IF c.e = "raw" THEN c.block
    ELSE [i \in 1 .. c.w |->
             IF c.e = "le" THEN Digit(c.v, i - 1) ELSE Digit(c.v, c.w - i)]

RECURSIVE Concatenation(_)
Concatenation(cs) ==
    IF cs = <<>> THEN <<>> ELSE Representation(cs[1]) \o Concatenation(Tail(cs))

\* The bytes a released chain made visible: what lies between the store's
\* visible end (a Vec's length, a slice's start) before and after the chain.
CommittedBytes ==
    IF kind = "slice"
    THEN SubSeq(buff, st0.slice.ptr + 1, slice.ptr)
    ELSE SubSeq(vec.buf, st0.vec.len + 1, vec.len)

\* ------------------------------------------------------------------ claims
\* C1: the bytes a chain of writes commits to the store are the
\* concatenation, in call order, of each value's byte representation in its
\* declared byte order, with nothing in between.
C1_CommittedIsConcatenation ==
    released => CommittedBytes = Concatenation(calls)

\* A released chain of three primitive writes that mixes both byte orders on
\* multi-byte values and holds a negative value.
C1_Witness ==
    /\ released /\ pc = "idle" /\ Len(calls) = 3
    /\ \E i, j, k \in 1 .. 3 :
          /\ calls[i].e = "le" /\ calls[i].w >= 2
          /\ calls[j].e = "be" /\ calls[j].w >= 2
          /\ calls[k].v < 0

\* C2: after a chain of writes from const_writer::<N>() (no convert),
\* remaining() returns N minus the sum of the widths written, and a call of
\* remaining() changes neither the handle nor the store.
C2_RemainingIsCapacityMinusWritten ==
    /\ [](pc = "live" /\ converts = 0 /\ ret # <<>>
            => ret = <<st0.N - ChainBytes>>)
    /\ [][last'.op = "remaining"
            => UNCHANGED <<cw, buff, slice, vec, pc>>]_vars

\* remaining() answered a positive number after two writes.
C2_Witness ==
    /\ pc = "live" /\ converts = 0 /\ Len(calls) = 2
    /\ ret = <<st0.N - ChainBytes>> /\ ret[1] > 0

\* C3: when a writer over a Vec is released, the Vec's length is its length
\* at construction plus the number of bytes written through the chain.
C3_VecLenIsWritten ==
    kind = "vec" /\ released => vec.len = st0.vec.len + ChainBytes

\* A chain over a non-empty Vec released after writing fewer bytes than it
\* declared and than the Vec had reserved.
C3_Witness ==
    /\ kind = "vec" /\ released /\ st0.vec.len > 0
    /\ ChainBytes > 0 /\ ChainBytes < st0.N
    /\ vec.len < vec.cap /\ vec.len = st0.vec.len + ChainBytes

\* C4: when a writer over a `&mut [u8]` is released after writing k bytes,
\* the caller's slice starts at the first unwritten byte and is k shorter.
C4_SliceAdvancedByWritten ==
    kind = "slice" /\ released =>
        /\ slice.ptr = st0.slice.ptr + ChainBytes
        /\ slice.len = st0.slice.len - ChainBytes

\* All but one byte of the slice written: a slice of length 1 is left.
C4_Witness ==
    /\ kind = "slice" /\ released /\ pc = "idle"
    /\ ChainBytes = st0.slice.len - 1 /\ ChainBytes > 0
    /\ slice.len = 1

\* C5: const_writer::<N>() on a slice panics exactly when the slice is
\* shorter than N; when it panics, no byte of the array and nothing of the
\* slice reference has changed; with length N it succeeds.
C5_SliceConstWriterPanicsIffShort ==
    kind = "slice" /\ last.op = "const_writer" =>
        /\ pc \in {"live", "panicked"}
        /\ pc = "panicked" <=> st0.slice.len < last.arg
        /\ pc = "panicked" => buff = st0.buff /\ slice = st0.slice /\ ~released
        /\ st0.slice.len = last.arg => pc = "live" /\ cw.N = last.arg

\* A second writer asks for more than the first one left of the slice.
C5_Witness ==
    /\ kind = "slice" /\ last.op = "const_writer" /\ pc = "panicked"
    /\ st0.slice.len < BufLen /\ st0.slice.len > 0
    /\ last.arg <= BufLen

\* C6: on a slice, convert::<M>() with M above the handle's remaining N
\* panics exactly when fewer than M bytes lie between the cursor and the end
\* of the slice (length at construction - bytes written < M); otherwise the
\* new handle has remaining M; no byte of the array changes either way.
C6_SliceGrowPanicsIffNoRoom ==
    [][(/\ kind = "slice" /\ pc = "live"
        /\ last'.op = "convert" /\ converts' = converts + 1
        /\ last'.arg > cw.N)
       => /\ pc' \in {"live", "panicked"}
          /\ pc' = "panicked" <=> st0.slice.len - ChainBytes < last'.arg
          /\ pc' = "live" => cw'.N = last'.arg /\ cw'.ptr = cw.ptr
          /\ buff' = buff]_vars

\* A growing convert asked for no more than the slice's length but for more
\* than the bytes left after those already written, and panicked.
C6_Witness ==
    /\ kind = "slice" /\ pc = "panicked" /\ last.op = "convert"
    /\ ChainBytes > 0
    /\ last.arg <= st0.slice.len
    /\ last.arg > st0.slice.len - ChainBytes

\* C7: on a Vec, once a chain has grown through convert, the bytes written
\* before the convert are still in place directly after the earlier content,
\* the cursor stands directly after them inside the (possibly relocated)
\* buffer, and on release the Vec holds the earlier content followed by all
\* bytes of the chain in order, its length being their total count.
C7_VecGrowKeepsBytes ==
    kind = "vec" /\ grewAt # <<>> =>
        /\ pc = "live" =>
              /\ cw.ptr = vec.ptr + st0.vec.len + ChainBytes
              /\ vec.cap >= st0.vec.len + ChainBytes + cw.N
              /\ SubSeq(vec.buf, st0.vec.len + 1, st0.vec.len + ChainBytes)
                    = Concatenation(calls)
        /\ released =>
              /\ vec.len = st0.vec.len + ChainBytes
              /\ vec.cap >= vec.len
              /\ SubSeq(vec.buf, 1, vec.len)
                    = SubSeq(st0.vec.buf, 1, st0.vec.len) \o Concatenation(calls)

\* A released chain that wrote, grew with the buffer relocated, and wrote
\* again.
C7_Witness ==
    /\ kind = "vec" /\ released /\ moved /\ grewAt # <<>>
    /\ grewAt[1] > 0 /\ grewAt[1] < ChainBytes
    /\ vec.len = st0.vec.len + ChainBytes

\* C8: convert::<M>() with M <= N (M = N and M = 0 included) never fails and
\* touches nothing but the handle's remaining quantity, which becomes M:
\* bytes, cursor, capacity, visible length/window are unchanged and the
\* adapter's grow is not called.
C8_ShrinkIsRelabel ==
    [][(/\ pc = "live"
        /\ last'.op = "convert" /\ converts' = converts + 1
        /\ last'.arg <= cw.N)
       => /\ pc' = "live"
          /\ cw'.N = last'.arg
          /\ cw'.ptr = cw.ptr
          /\ UNCHANGED <<buff, slice, vec, grewAt, moved, released>>]_vars

\* A handle converted to exactly what it had left after writing.
C8_Witness ==
    /\ pc = "live" /\ last.op = "convert" /\ converts = 1 /\ grewAt = <<>>
    /\ ChainBytes > 0 /\ cw.N = st0.N - ChainBytes

\* The bytes a write call hands to the adapter.
CallBytes(c) == IF c.e = "raw" THEN c.block ELSE EndianBytes(c.v, c.w, c.e)

RECURSIVE SliceWrites(_, _, _)
\* The calls cs made one after another on a slice adapter, no convert between.
SliceWrites(mem, ptr, cs) ==
    IF cs = <<>> THEN [mem |-> mem, ptr |-> ptr]
    ELSE LET r == SliceWrite(mem, ptr, CallBytes(cs[1]))
         IN  SliceWrites(r.mem, r.ptr, Tail(cs))

RECURSIVE VecWrites(_, _, _)
\* The calls cs made one after another on a Vec adapter, no convert between.
VecWrites(v, ptr, cs) ==
    IF cs = <<>> THEN [vec |-> v, ptr |-> ptr]
    ELSE LET r == VecWrite(v, ptr, CallBytes(cs[1]))
         IN  VecWrites(r.vec, r.ptr, Tail(cs))

\* The store as left by the chain that makes the same write calls on the same
\* initial store with no convert at all: const_writer for exactly the bytes
\* written, the writes, release.
DirectSlice ==
    LET r == SliceWrites(st0.buff, SliceNew(st0.slice), calls)
    IN  [buff |-> r.mem, slice |-> SliceDrop(st0.slice, r.ptr)]

DirectVec ==
    LET a == VecFrom(st0.vec, ChainBytes, 4096)
        r == VecWrites(a.vec, a.ptr, calls)
    IN  VecDrop(r.vec, r.ptr)

\* The content of a Vec: its first len bytes.
Visible(v) == SubSeq(v.buf, 1, v.len)

\* C9: wherever successful converts are placed between the writes of a
\* chain, the released store has the content and visible length/window that
\* the same writes leave without any convert.
C9_ConvertsDoNotChangeResult ==
    released /\ pc = "idle" =>
        IF kind = "slice"
        THEN buff = DirectSlice.buff /\ slice = DirectSlice.slice
        ELSE /\ vec.len = DirectVec.len
             /\ vec.cap >= vec.len
             /\ Visible(vec) = Visible(DirectVec)

\* A released chain with a growing convert between two of its writes.
C9_Witness ==
    /\ released /\ pc = "idle" /\ converts >= 1 /\ grewAt # <<>>
    /\ grewAt[1] > 0 /\ grewAt[1] < ChainBytes

\* C10: a write of width w on a handle whose remaining N is below w never
\* executes: every write that happens has w <= N and leaves N - w, and no
\* handle ever has a negative remaining quantity.
C10_NoWriteBeyondRemaining ==
    /\ [](cw.N >= 0)
    /\ [][(last'.op \in {"write", "write_slice"} /\ ops' = ops + 1)
            => /\ last'.arg <= cw.N
               /\ cw'.N = cw.N - last'.arg
               /\ Len(calls') = Len(calls) + 1]_vars

\* A handle with 2 bytes left after write_slice: the writes of 4, 8 and 16
\* bytes do not exist for it.
C10_Witness ==
    /\ pc = "live" /\ last.op = "write_slice" /\ cw.N = 2
    /\ ~ WriteCompiles(cw.N, 4)

\* C11: the live handle's remaining quantity is backed by real space: the
\* cursor lies inside the store and cursor + remaining does not pass the end
\* of the slice (nor of the array behind it), respectively the allocated
\* capacity of the Vec; so no write of at most `remaining` bytes passes it.
C11_RemainingIsBacked ==
    pc = "live" =>
        /\ cw.N >= 0
        /\ IF kind = "slice"
           THEN /\ cw.ptr >= slice.ptr
                /\ OffsetFrom(cw.ptr, slice.ptr) + cw.N <= slice.len
                /\ cw.ptr + cw.N <= Len(buff)
           ELSE /\ cw.ptr >= vec.ptr
                /\ OffsetFrom(cw.ptr, vec.ptr) + cw.N <= vec.cap
                /\ Len(vec.buf) = vec.cap

\* A slice handle that grew, wrote, and whose remaining quantity now reaches
\* exactly the end of the array.
C11_Witness ==
    /\ pc = "live" /\ kind = "slice" /\ grewAt # <<>> /\ ChainBytes > 0
    /\ cw.N > 0 /\ cw.ptr + cw.N = Len(buff)

\* C12: const_writer::<N>() on a Vec of length L leaves the length and the
\* first L bytes unchanged, puts the cursor at offset L and makes the
\* capacity at least L + N; the chain's bytes land after the existing
\* content, which stays as it was while the chain lives and after release.
C12_VecConstWriterAppends ==
    kind = "vec" /\ (pc = "live" \/ released) =>
        /\ vec.cap >= st0.vec.len
        /\ SubSeq(vec.buf, 1, st0.vec.len) = SubSeq(st0.vec.buf, 1, st0.vec.len)
        /\ last.op = "const_writer" =>
              /\ vec.len = st0.vec.len
              /\ cw.ptr = vec.ptr + st0.vec.len
              /\ vec.cap >= st0.vec.len + last.arg
              /\ cw.N = last.arg

\* A writer made on a non-empty Vec whose reservation moved the buffer.
C12_Witness ==
    /\ kind = "vec" /\ pc = "live" /\ last.op = "const_writer"
    /\ st0.vec.len > 0 /\ last.arg > 0
    /\ vec.ptr # st0.vec.ptr
    /\ cw.ptr = vec.ptr + st0.vec.len

\* C13: every write and convert consumes the handle it is called on and
\* yields exactly one new handle, and a new writer is obtained only when no
\* handle of the store exists: at any moment at most one handle exists, it
\* exists exactly while a chain is live, and none is left after the release.
C13_AtMostOneLiveHandle ==
    /\ live \in {0, 1}
    /\ (live = 1) <=> (pc = "live")
    /\ released /\ pc # "live" => live = 0

\* The single handle of a second chain, after a write.
C13_Witness ==
    /\ pc = "live" /\ live = 1 /\ prev # <<>> /\ calls # <<>>
    /\ last.op = "write"

\* C14: while a handle is alive no write and no convert changes the store's
\* visible length or window (the Vec's len, the slice's start and length);
\* the only step that changes them is the release of the adapter, which ends
\* the chain.
C14_OnlyReleaseChangesStore ==
    [][(slice' # slice \/ vec'.len # vec.len) =>
           (pc = "live" /\ pc' # "live" /\ released' /\ ~released)]_vars

\* A live Vec chain that wrote and grew, its buffer relocated, the length
\* still the one at construction.
C14_Witness ==
    /\ pc = "live" /\ kind = "vec" /\ ChainBytes > 0 /\ moved
    /\ vec.len = st0.vec.len /\ last.op \in {"write", "write_slice"}

\* C15: every growing convert::<M>() (M above the handle's remaining) on a
\* Vec whose length at construction was L and whose chain had written k
\* bytes yields a handle with remaining M, the capacity at least L + k + M
\* and the cursor at offset L + k from the start of the (possibly relocated)
\* buffer; the Vec's length is still L.
C15_VecGrowReservesWrittenPlusM ==
    [][(/\ kind = "vec" /\ pc = "live"
        /\ last'.op = "convert" /\ converts' = converts + 1
        /\ last'.arg > cw.N)
       => /\ pc' = "live"
          /\ cw'.N = last'.arg
          /\ vec'.cap >= st0.vec.len + ChainBytes + last'.arg
          /\ cw'.ptr = vec'.ptr + st0.vec.len + ChainBytes
          /\ vec'.len = st0.vec.len
          /\ calls' = calls]_vars

\* A chain on a Vec with content (L > 0) that shrank, wrote k > 0 bytes and
\* then grew, the grow relocating the buffer.
C15_Witness ==
    /\ kind = "vec" /\ pc = "live" /\ last.op = "convert"
    /\ st0.vec.len > 0 /\ ChainBytes > 0
    /\ converts = 2 /\ grewAt = <<ChainBytes>>
    /\ moved
    /\ cw.N = last.arg
    /\ cw.ptr = vec.ptr + st0.vec.len + ChainBytes

\* C16: on a Vec neither const_writer nor convert ever fails: both always
\* yield a live handle, whatever is asked; the bounds failure exists only
\* for slices.
C16_VecNeverFails ==
    kind = "vec" =>
        /\ pc # "panicked"
        /\ last.op \in {"const_writer", "convert"} => pc = "live" /\ cw.N = last.arg

\* A Vec convert that asked for more than the capacity held and went through.
C16_Witness ==
    /\ kind = "vec" /\ pc = "live" /\ last.op = "convert"
    /\ grewAt # <<>> /\ last.arg > 8 /\ vec.cap >= last.arg
    /\ st0.vec.len > 0

\* C17: when a slice convert fails after the chain wrote k bytes, the
\* operation stops (no handle is left), the k bytes stay in the array, and
\* the adapter's release has run: the slice starts k bytes further and is k
\* bytes shorter than at construction.
C17_FailedConvertStillReleases ==
    kind = "slice" /\ pc = "panicked" /\ last.op = "convert" =>
        /\ released /\ cw = NoWriter /\ live = 0
        /\ slice.ptr = st0.slice.ptr + ChainBytes
        /\ slice.len = st0.slice.len - ChainBytes
        /\ st0.slice.ptr + ChainBytes <= Len(buff)
        /\ SubSeq(buff, st0.slice.ptr + 1, st0.slice.ptr + ChainBytes)
              = Concatenation(calls)

\* A slice convert that failed after the chain had written bytes.
C17_Witness ==
    /\ kind = "slice" /\ pc = "panicked" /\ last.op = "convert"
    /\ ChainBytes > 0 /\ slice.ptr = st0.slice.ptr + ChainBytes
    /\ buff[1] # 0

\* C18: writers obtained one after another on the same store compose: the
\* cursor of a later chain starts right after the bytes of the earlier
\* ones, and after chains that wrote k1, k2, ... bytes the Vec is
\* k1 + k2 + ... longer, the slice window that much further and shorter,
\* and the content is the concatenation of all their writes.
C18_SuccessiveWritersCompose ==
    LET total == SumWidths(prev) + ChainBytes
    IN  /\ pc = "live" =>
              cw.ptr = (IF kind = "slice" THEN 0 ELSE vec.ptr) + total
        /\ released =>
              IF kind = "slice"
              THEN /\ slice.ptr = total
                   /\ slice.len = Len(buff) - total
                   /\ total <= Len(buff)
                   /\ SubSeq(buff, 1, total) = Concatenation(prev \o calls)
              ELSE /\ vec.len = total
                   /\ total <= vec.cap
                   /\ Visible(vec) = Concatenation(prev \o calls)

\* Two chains on a Vec, both released, both having written.
C18_Witness ==
    /\ kind = "vec" /\ released /\ pc = "idle"
    /\ prev # <<>> /\ calls # <<>>
    /\ vec.len = SumWidths(prev) + ChainBytes

\* C19: a slice chain that has written k bytes has modified only the k bytes
\* that start at the slice's start at construction: every byte of the array
\* before that start and every byte after those k keeps the value it had
\* when the chain was created.
C19_SliceChainTouchesOnlyItsBytes ==
    kind = "slice" =>
        /\ Len(buff) = Len(st0.buff)
        /\ \A i \in 1 .. Len(buff) :
              (i <= st0.slice.ptr \/ i > st0.slice.ptr + ChainBytes)
                  => buff[i] = st0.buff[i]

\* A second slice chain, released after writing, with earlier content before
\* it and untouched bytes after it.
C19_Witness ==
    /\ kind = "slice" /\ released /\ pc = "idle"
    /\ st0.slice.ptr > 0 /\ ChainBytes > 0
    /\ st0.slice.ptr + ChainBytes < Len(buff)
    /\ buff[st0.slice.ptr + 1] # 0

\* C20: on a slice whose handle was obtained with N, a growing convert::<K>()
\* after k written bytes fails only when K exceeds N - k: asking for no more
\* than what const_writer validated always passes.
C20_GrowWithinValidatedPasses ==
    /\ kind = "slice" /\ last.op = "convert"
    /\ last.arg <= st0.N - ChainBytes
    => /\ pc = "live"
       /\ cw.N = last.arg

\* A handle shrunk, written through, then grown back within the validated
\* total.
C20_Witness ==
    /\ kind = "slice" /\ pc = "live" /\ last.op = "convert"
    /\ converts >= 2 /\ ChainBytes > 0 /\ grewAt = <<ChainBytes>>
    /\ cw.N <= st0.N - ChainBytes

====
